---- MODULE Spec2Model ----
(***************************************************************************)
(* AstroPitography: the camera control panel.  Two revisions of the same   *)
(* program live in the repository and both are modelled:                   *)
(*   rev = "run"  : src/src/astropitography (PiCamManager, GUIManager and  *)
(*                  the event loop run())                                  *)
(*   rev = "main" : src/AstroPitography.py (the single-file script, main())*)
(* One action is one iteration of the event loop (or one event of the      *)
(* Last Image window), or one act of the environment (the operator typing  *)
(* into a control, the wall clock advancing, a file removed behind the     *)
(* program's back).  Text is a sequence of one-character strings, so that  *)
(* formatting and parsing are computed, not assumed.                       *)
(***************************************************************************)
EXTENDS Integers, Sequences, FiniteSets, TLC

VARIABLES
    rev,                \* which revision runs: "run" or "main"
    pc,                 \* "loop", "image_window", "returned", "raised"
    exc,                \* the exception that ended the program, "" if none
    event,              \* the event of the last read
    values,             \* the values dict of the last read
    window,             \* the widgets of the main window
    picam_manager,      \* rev "run": the PiCamManager fields
    main_locals,        \* rev "main": the cam_* locals and DNG_convert of main()
    default_last_image, \* rev "main": Parameters.default_last_image
    img_save_directory, \* img_save_directory (run) / cam_folder_save (main)
    vid_save_directory, \* vid_save_directory (run) / vid_folder_save (main)
    res_counter,        \* index into the preview resolution list
    camera,             \* the picamera device
    files,              \* the paths that exist on disk
    now,                \* wall clock, seconds since the program started
    ops,                \* what the last action did to the device and the GUI, in order
    edits,              \* number of values typed into controls so far
    clicks,             \* number of checkbox clicks so far
    shots,              \* number of Capture/Record actions so far
    ticks               \* number of idle seconds so far

vars == <<rev, pc, exc, event, values, window, picam_manager, main_locals,
          default_last_image, img_save_directory, vid_save_directory, res_counter,
          camera, files, now, ops, edits, clicks, shots, ticks>>

---------------------------------------------------------------------------
(* Bounds of the model *)

MaxEdits == 2
MaxClicks == 2
MaxShots == 1
MaxTicks == 1

---------------------------------------------------------------------------
(* Text: str(), int() and the f-string pieces *)

Digits == <<"0", "1", "2", "3", "4", "5", "6", "7", "8", "9">>

DigitChar(d) == Digits[d + 1]

IsDigit(c) == \E d \in 0..9 : Digits[d + 1] = c

DigitVal(c) == CHOOSE d \in 0..9 : Digits[d + 1] = c

RECURSIVE NatToStr(_)
NatToStr(n) ==
    IF n < 10 THEN <<DigitChar(n)>>
    ELSE NatToStr(n \div 10) \o <<DigitChar(n % 10)>>

\* str(n) of a Python int, as the f-strings and str.format render it
IntToStr(n) == IF n < 0 THEN <<"-">> \o NatToStr(0 - n) ELSE NatToStr(n)

\* two-digit, zero-padded field of strftime (%d %m %H %M %S)
Pad2(n) == <<DigitChar((n \div 10) % 10), DigitChar(n % 10)>>

\* four-digit field of strftime (%Y)
Pad4(n) == <<DigitChar((n \div 1000) % 10), DigitChar((n \div 100) % 10),
             DigitChar((n \div 10) % 10), DigitChar(n % 10)>>

RECURSIVE DigitsVal(_)
DigitsVal(t) ==
    IF Len(t) = 0 THEN 0
    ELSE 10 * DigitsVal(SubSeq(t, 1, Len(t) - 1)) + DigitVal(t[Len(t)])

Unsigned(t) == IF Len(t) > 0 /\ t[1] \in {"-", "+"} THEN Tail(t) ELSE t

\* int(text) succeeds: an optional sign and at least one digit
IntParses(t) ==
    /\ Len(Unsigned(t)) > 0
    /\ \A i \in 1..Len(Unsigned(t)) : IsDigit(Unsigned(t)[i])

IntOf(t) ==
    IF Len(t) > 0 /\ t[1] = "-" THEN 0 - DigitsVal(Unsigned(t))
    ELSE DigitsVal(Unsigned(t))

\* Python values a control can yield: an int of the Spin's list, or the typed text
PyI(n) == [t |-> "int", v |-> n, s |-> <<>>]
PyS(s) == [t |-> "str", v |-> 0, s |-> s]
Unset == [t |-> "unset", v |-> 0, s |-> <<>>]

\* int(x) raises ValueError
IntRaises(x) == x.t = "str" /\ ~IntParses(x.s)

\* int(x)
PyInt(x) == IF x.t = "int" THEN x.v ELSE IntOf(x.s)

---------------------------------------------------------------------------
(* The controls of the main window *)

SpinKeys == {"brightness_slider", "contrast_slider", "saturation_slider",
             "sharpness_slider", "exposure_slider", "no_images_slider",
             "time_step_slider", "video_duration_slider"}

TagKeys == {"dark", "light", "flat", "bias"}

CheckboxKeys == {"greyscale", "convertdng"} \cup TagKeys

\* the value lists of the Spin elements
SpinRange(key) ==
    CASE key = "brightness_slider" -> 0..99
      [] key = "contrast_slider" -> -100..99
      [] key = "saturation_slider" -> -100..99
      [] key = "sharpness_slider" -> 0..99
      [] key = "exposure_slider" -> 0..199
      [] key = "no_images_slider" -> 1..99
      [] key = "time_step_slider" -> 0..99
      [] key = "video_duration_slider" -> 1..99

\* the defaults: PiCamManager.default_settings and the Parameters class
default_settings ==
    [brightness |-> 50, contrast |-> 0, saturation |-> 0, sharpness |-> 0,
     image_no |-> 1, exposure |-> 1, time_step |-> 2, vid_time |-> 10]

\* what a Spin element gives in the values dict for the text it shows: the
\* item of its list whose str() is the text, else the text itself
SpinRead(key, text) ==
    IF IntParses(text) /\ IntOf(text) \in SpinRange(key) /\ IntToStr(IntOf(text)) = text
    THEN PyI(IntOf(text))
    ELSE PyS(text)

\* the texts the operator types into each control
TypedTexts(key) ==
    CASE key = "brightness_slider" -> {<<"0">>, <<"1", "5", "0">>, <<>>}
      [] key = "contrast_slider" -> {<<"-", "1", "0", "1">>}
      [] key = "saturation_slider" -> {<<"1", "0", "1">>}
      [] key = "sharpness_slider" -> {<<"-", "1">>}
      [] key = "exposure_slider" -> {<<"0">>, <<"2">>}
      [] key = "no_images_slider" -> {<<"2">>, <<"0">>}
      [] key = "time_step_slider" -> {<<"0">>}
      [] key = "video_duration_slider" -> {<<"3">>, <<"1", ":", "3", "0">>}

---------------------------------------------------------------------------
(* Paths and file names *)

PyNone == [t |-> "none", v |-> 0, s |-> <<>>]

\* str(x) inside an f-string or str.format: None renders as "None"
Fmt(x) ==
    CASE x.t = "int" -> IntToStr(x.v)
      [] x.t = "str" -> x.s
      [] OTHER -> <<"N", "o", "n", "e">>

\* settings.IMAGE_SAVE_FOLDER, "{cwd}/images", with the working directory /pi
IMAGE_SAVE_FOLDER == <<"/", "p", "i", "/", "i", "m", "a", "g", "e", "s">>

\* settings.VIDEO_SAVE_FOLDER, "{cwd}/videos"
VIDEO_SAVE_FOLDER == <<"/", "p", "i", "/", "v", "i", "d", "e", "o", "s">>

\* a folder the operator can pick in the Save Location dialog
UsbFolder == <<"/", "u", "s", "b">>

\* the directories that exist
Directories == {IMAGE_SAVE_FOLDER, VIDEO_SAVE_FOLDER, UsbFolder}

\* the placeholder of the last image: Path(__file__).parent / "blackimage.png"
\* (run), "blackimage.png" (main)
Placeholder(r) ==
    IF r = "run"
    THEN <<"/", "a", "p", "p", "/", "b", "l", "a", "c", "k", "i", "m", "a", "g", "e",
           ".", "p", "n", "g">>
    ELSE <<"b", "l", "a", "c", "k", "i", "m", "a", "g", "e", ".", "p", "n", "g">>

\* the date and time at which the program starts
StartClock == [day |-> 5, month |-> 11, year |-> 2026,
               hour |-> 21, minute |-> 59, second |-> 58]

\* datetime.now().strftime("%d_%m_%Y_%H_%M_%S") when the clock shows t
Timestamp(t) ==
    LET T == StartClock.hour * 3600 + StartClock.minute * 60 + StartClock.second + t
    IN  Pad2(StartClock.day + T \div 86400) \o <<"_">> \o Pad2(StartClock.month)
        \o <<"_">> \o Pad4(StartClock.year) \o <<"_">> \o Pad2((T \div 3600) % 24)
        \o <<"_">> \o Pad2((T \div 60) % 60) \o <<"_">> \o Pad2(T % 60)

\* the file_append with the test of flat placed before the test of dark
FileAppend_flat_first(vals) ==
    (IF vals["flat"] THEN <<"_", "f", "l", "a", "t">> ELSE <<>>)
    \o (IF vals["dark"] THEN <<"_", "d", "a", "r", "k">> ELSE <<>>)
    \o (IF vals["light"] THEN <<"_", "l", "i", "g", "h", "t">> ELSE <<>>)
    \o (IF vals["bias"] THEN <<"_", "b", "i", "a", "s">> ELSE <<>>)

\* the file_append of a capture: the checked tags, in the order the code tests them
FileAppend(vals) ==
    (IF vals["dark"] THEN <<"_", "d", "a", "r", "k">> ELSE <<>>)
    \o (IF vals["light"] THEN <<"_", "l", "i", "g", "h", "t">> ELSE <<>>)
    \o (IF vals["flat"] THEN <<"_", "f", "l", "a", "t">> ELSE <<>>)
    \o (IF vals["bias"] THEN <<"_", "b", "i", "a", "s">> ELSE <<>>)

\* the name stem of an image or a video in each revision
ImagePrefix(r) ==
    IF r = "run"
    THEN <<"/", "a", "s", "t", "r", "o", "p", "i", "t", "o", "_", "i", "m", "a", "g",
           "e", "_">>
    ELSE <<"/", "I", "m", "a", "g", "e", "_">>

VideoPrefix(r) ==
    IF r = "run"
    THEN <<"/", "a", "s", "t", "r", "o", "p", "i", "t", "o", "_", "v", "i", "d", "e",
           "o", "_">>
    ELSE <<"/", "V", "i", "d", "e", "o", "_">>

\* the file name of frame i of the long exposure branch, were the exposure
\* left out of it
LongExposureName_no_mark(r, save, ts, i, exposure, append) ==
    Fmt(save) \o ImagePrefix(r) \o ts \o <<"_", "n", "o", "-">> \o IntToStr(i)
    \o append \o <<".", "j", "p", "e", "g">>

\* the file name of frame i of the long exposure branch
LongExposureName(r, save, ts, i, exposure, append) ==
    Fmt(save) \o ImagePrefix(r) \o ts \o <<"_", "n", "o", "-">> \o IntToStr(i)
    \o <<"_", "L", "E", "_">> \o IntToStr(exposure) \o <<"s">> \o append
    \o <<".", "j", "p", "e", "g">>

\* the file name of frame i of the normal branch
NormalName(r, save, ts, i, append) ==
    Fmt(save) \o ImagePrefix(r) \o ts \o <<"_", "n", "o", "-">> \o IntToStr(i)
    \o append \o <<".", "j", "p", "e", "g">>

\* the file name of a video
VideoName(r, save, ts, vid_time) ==
    Fmt(save) \o VideoPrefix(r) \o ts \o <<"_">> \o Fmt(vid_time)
    \o <<"s", ".", "y", "u", "v">>

\* the DNG that the converter writes next to an image
DngName(image) == SubSeq(image, 1, Len(image) - 5) \o <<".", "d", "n", "g">>

\* a path can be created: its directory exists
Creatable(save) == save.t = "str" /\ save.s \in Directories

---------------------------------------------------------------------------
(* The state a handler works on, and the primitives of the device, the     *)
(* converter, the clock and the GUI.  A primitive does nothing once an     *)
(* exception is in flight (exc # ""): the rest of the handler is skipped.  *)

Cur ==
    [picam_manager |-> picam_manager, main_locals |-> main_locals,
     default_last_image |-> default_last_image,
     img_save_directory |-> img_save_directory, res_counter |-> res_counter,
     camera |-> camera, window |-> window, files |-> files, now |-> now,
     ops |-> <<>>, exc |-> "", pc |-> pc]

Op(o, a, v) == [op |-> o, a |-> a, v |-> v]

Log(s, o, a, v) == [s EXCEPT !.ops = Append(@, Op(o, a, v))]

Raise(s, e) == IF s.exc # "" THEN s ELSE [s EXCEPT !.exc = e]

\* the values the device accepts for an attribute (picamera raises otherwise)
CamValid(attr, val) ==
    CASE attr = "brightness" -> val \in 0..100
      [] attr \in {"contrast", "saturation", "sharpness"} -> val \in -100..100
      [] OTHER -> TRUE

\* camera.<attr> = val
CamSet(s, attr, val) ==
    IF s.exc # "" THEN s
    ELSE IF s.camera.closed THEN Raise(s, "PiCameraClosed")
    ELSE IF ~CamValid(attr, val) THEN Raise(s, "PiCameraValueError")
    ELSE Log([s EXCEPT !.camera[attr] = val], "set", attr, val)

\* time.sleep(secs)
Sleep(s, secs) ==
    IF s.exc # "" THEN s
    ELSE IF secs < 0 THEN Raise(s, "ValueError")
    ELSE Log([s EXCEPT !.now = @ + secs], "sleep", "", secs)

\* picam.capture(file, format="jpeg", bayer=True); ok: the device delivers the frame
CaptureFrame(s, save, file, ok) ==
    IF s.exc # "" THEN s
    ELSE IF s.camera.closed THEN Raise(s, "PiCameraClosed")
    ELSE IF ~Creatable(save) THEN Raise(s, "FileNotFoundError")
    ELSE IF ~ok THEN Raise(s, "PiCameraRuntimeError")
    ELSE Log([s EXCEPT !.files = @ \cup {file}], "capture", file, 0)

\* window[status].update(text)
Status(s, text) ==
    IF s.exc # "" THEN s
    ELSE Log([s EXCEPT !.window.status = text], "status", "", text)

\* window.Refresh()
Refresh(s) == IF s.exc # "" THEN s ELSE Log(s, "refresh", "", 0)

\* os.remove(image_name + ".jpg") of convert_to_DNG
RemoveTwin(s, twin) ==
    IF twin \notin s.files THEN Raise(s, "FileNotFoundError")
    ELSE Log([s EXCEPT !.files = @ \ {twin}], "remove", twin, 0)

\* convert_to_DNG(image_name); ok: the converter succeeds
convert_to_DNG(s, image_name, ok, delete_JPG_twin) ==
    IF s.exc # "" THEN s
    ELSE IF ~ok THEN Raise(s, "DNGError")
    ELSE IF delete_JPG_twin
         THEN RemoveTwin(Log([s EXCEPT !.files = @ \cup {DngName(image_name)}],
                             "convert", image_name, 0),
                         image_name \o <<".", "j", "p", "g">>)
         ELSE Log([s EXCEPT !.files = @ \cup {DngName(image_name)}],
                  "convert", image_name, 0)

\* the points at which the device or the converter can fail during an action
NoFail == [frame |-> -1, what |-> "none"]

FailPoints ==
    {NoFail} \cup {[frame |-> i, what |-> w] : i \in 0..1, w \in {"capture", "convert"}}

Fails(c, i, w) == c.fail.what = w /\ c.fail.frame = i

---------------------------------------------------------------------------
(* The capture loops, shared by PiCamManager.capture_image and main()      *)

\* if DNG_convert: convert_to_DNG(image_file)
ConvertFrame(s, i, c, image_file) ==
    IF c.dng THEN convert_to_DNG(s, image_file, ~Fails(c, i, "convert"), c.twin)
    ELSE s

\* the body of the long exposure loop for frame i, were the shutter speed
\* given in milliseconds
LongExposureFrame_milliseconds(s, i, c, image_file) ==
    LET s1 == CamSet(s, "framerate", <<1, c.exposure>>)
        s2 == CamSet(s1, "shutter_speed", c.exposure * 1000)
        s3 == CamSet(s2, "iso", 800)
        s4 == Sleep(s3, 30)
        s5 == CamSet(s4, "exposure_mode", "off")
        s6 == CaptureFrame(s5, c.save, image_file, ~Fails(c, i, "capture"))
    IN  ConvertFrame(s6, i, c, image_file)

\* the body of the long exposure loop for frame i
LongExposureFrame(s, i, c, image_file) ==
    LET s1 == CamSet(s, "framerate", <<1, c.exposure>>)
        s2 == CamSet(s1, "shutter_speed", c.exposure * 1000000)
        s3 == CamSet(s2, "iso", 800)
        s4 == Sleep(s3, 30)
        s5 == CamSet(s4, "exposure_mode", "off")
        s6 == CaptureFrame(s5, c.save, image_file, ~Fails(c, i, "capture"))
    IN  ConvertFrame(s6, i, c, image_file)

\* for i in range(n) of the long exposure branch, from frame i on
RECURSIVE LongExposureFrames(_, _, _)
LongExposureFrames(s, i, c) ==
    IF i >= c.n \/ s.exc # "" THEN s
    ELSE LongExposureFrames(
            LongExposureFrame(s, i, c,
                LongExposureName(c.r, c.save, c.ts, i, c.exposure, c.append)),
            i + 1, c)

\* the body of the normal loop for frame i
NormalFrame(s, i, c, image_file) ==
    LET s1 == CaptureFrame(s, c.save, image_file, ~Fails(c, i, "capture"))
        s2 == Sleep(s1, c.time_step)
    IN  ConvertFrame(s2, i, c, image_file)

\* for i in range(n) of the normal branch, from frame i on
RECURSIVE NormalFrames(_, _, _)
NormalFrames(s, i, c) ==
    IF i >= c.n \/ s.exc # "" THEN s
    ELSE NormalFrames(NormalFrame(s, i, c, NormalName(c.r, c.save, c.ts, i, c.append)),
                      i + 1, c)

\* the two branches, were the long exposure branch taken from 1 second on
CaptureBranch_from_one(s, c) ==
    IF c.exposure >= 1
    THEN CamSet(CamSet(LongExposureFrames(s, 0, c), "framerate", <<30, 1>>),
                "exposure_mode", "auto")
    ELSE NormalFrames(s, 0, c)

\* the two branches, were the shutter speed and the ISO given back to the
\* automatic exposure after the long exposure loop
CaptureBranch_restores_all(s, c) ==
    IF c.exposure > 1
    THEN CamSet(CamSet(CamSet(CamSet(LongExposureFrames(s, 0, c),
                                     "framerate", <<30, 1>>),
                              "exposure_mode", "auto"),
                       "shutter_speed", 0),
                "iso", 0)
    ELSE NormalFrames(s, 0, c)

\* the two branches, were the exposure mode left as the loop sets it
CaptureBranch_mode_left_off(s, c) ==
    IF c.exposure > 1
    THEN CamSet(LongExposureFrames(s, 0, c), "framerate", <<30, 1>>)
    ELSE NormalFrames(s, 0, c)

\* the branch on the exposure, and the restore after the long exposure loop
CaptureBranch(s, c) ==
    IF c.exposure > 1
    THEN CamSet(CamSet(LongExposureFrames(s, 0, c), "framerate", <<30, 1>>),
                "exposure_mode", "auto")
    ELSE NormalFrames(s, 0, c)

\* image_file as the first pass of the loop leaves it
LastFrameName_first_frame(c) ==
    IF c.exposure > 1
    THEN LongExposureName(c.r, c.save, c.ts, 0, c.exposure, c.append)
    ELSE NormalName(c.r, c.save, c.ts, 0, c.append)

\* the value of image_file when the loop has run to its end
LastFrameName(c) ==
    IF c.exposure > 1
    THEN LongExposureName(c.r, c.save, c.ts, c.n - 1, c.exposure, c.append)
    ELSE NormalName(c.r, c.save, c.ts, c.n - 1, c.append)

\* greyscale: picam.color_effects = (128, 128) or None
ColorEffects(s, vals) ==
    CamSet(s, "color_effects", IF vals["greyscale"] THEN <<128, 128>> ELSE <<>>)

---------------------------------------------------------------------------
(* Recording, shared by PiCamManager.capture_video and main()              *)

\* picam.start_recording(video_file, format="yuv")
StartRecording(s, save, video_file) ==
    IF s.exc # "" THEN s
    ELSE IF s.camera.closed THEN Raise(s, "PiCameraClosed")
    ELSE IF ~Creatable(save) THEN Raise(s, "FileNotFoundError")
    ELSE Log([s EXCEPT !.files = @ \cup {video_file}, !.camera.recording = TRUE],
             "start_recording", video_file, 0)

\* picam.wait_recording(timeout); ok: the device reports no error while recording
WaitRecording(s, timeout, ok) ==
    IF s.exc # "" THEN s
    ELSE IF timeout.t # "int" THEN Raise(s, "TypeError")
    ELSE IF ~ok THEN Raise(s, "PiCameraRuntimeError")
    ELSE Log([s EXCEPT !.now = @ + timeout.v], "wait_recording", "", timeout.v)

\* picam.stop_recording()
StopRecording(s) ==
    IF s.exc # "" THEN s
    ELSE Log([s EXCEPT !.camera.recording = FALSE], "stop_recording", "", 0)

\* the body of a Record action, were the recording stopped before the wait
RecordVideo_stop_before_wait(s, r, save, ts, vid_time, fail) ==
    LET s1 == Refresh(Status(s, "Working..."))
        s2 == Status(s1, "Working...")
        s3 == CamSet(s2, "resolution", <<3296, 2464>>)
        s4 == StartRecording(s3, save, VideoName(r, save, ts, vid_time))
        s5 == StopRecording(s4)
        s6 == WaitRecording(s5, vid_time, fail.what # "record")
    IN  Refresh(Status(s6, "Idle"))

\* the body of a Record action
RecordVideo(s, r, save, ts, vid_time, fail) ==
    LET s1 == Refresh(Status(s, "Working..."))
        s2 == Status(s1, "Working...")
        s3 == CamSet(s2, "resolution", <<3296, 2464>>)
        s4 == StartRecording(s3, save, VideoName(r, save, ts, vid_time))
        s5 == WaitRecording(s4, vid_time, fail.what # "record")
        s6 == StopRecording(s5)
    IN  Refresh(Status(s6, "Idle"))

---------------------------------------------------------------------------
(* PiCamManager (rev "run")                                                *)

\* the assignments of update_camera_settings that go through int(), in order
UpdateOrder ==
    <<<<"brightness", "brightness_slider">>, <<"contrast", "contrast_slider">>,
      <<"saturation", "saturation_slider">>, <<"sharpness", "sharpness_slider">>,
      <<"exposure", "exposure_slider">>, <<"exposure_img_count", "no_images_slider">>,
      <<"time_step", "time_step_slider">>>>

\* self.<f> = int(x)
AssignInt(s, f, x) ==
    IF IntRaises(x) THEN Raise(s, "ValueError")
    ELSE [s EXCEPT !.picam_manager[f] =
                      IF f = "exposure_img_count" THEN PyI(PyInt(x)) ELSE PyInt(x)]

RECURSIVE AssignInts(_, _, _)
AssignInts(s, vals, i) ==
    IF i > Len(UpdateOrder) \/ s.exc # "" THEN s
    ELSE AssignInts(AssignInt(s, UpdateOrder[i][1], vals[UpdateOrder[i][2]]), vals, i + 1)

\* self.vid_time = values["video_duration_slider"]
AssignVidTime(s, vals) ==
    IF s.exc # "" THEN s
    ELSE [s EXCEPT !.picam_manager.vid_time = vals["video_duration_slider"]]

\* apply brightness, contrast, saturation and sharpness to the camera
ApplyToCamera(s, b, c, sa, sh) ==
    CamSet(CamSet(CamSet(CamSet(s, "brightness", b), "contrast", c),
                  "saturation", sa), "sharpness", sh)

\* the four attributes go to the camera, were there no test of self.camera
PushToCamera_unguarded(s) ==
    ApplyToCamera(s, s.picam_manager.brightness, s.picam_manager.contrast,
                  s.picam_manager.saturation, s.picam_manager.sharpness)

\* if self.camera is not None: the four attributes go to the camera
PushToCamera(s) ==
    IF s.picam_manager.camera_attached
    THEN ApplyToCamera(s, s.picam_manager.brightness, s.picam_manager.contrast,
                       s.picam_manager.saturation, s.picam_manager.sharpness)
    ELSE s

update_camera_settings(s, vals) ==
    PushToCamera(AssignVidTime(AssignInts(s, vals, 1), vals))

capture_video(s, save_location, fail) ==
    RecordVideo(s, "run", save_location, Timestamp(s.now), s.picam_manager.vid_time, fail)

\* self.last_image = image_file, after the loop
AssignLastImage(s, c) ==
    IF s.exc # "" THEN s
    ELSE IF c.n < 1 THEN Raise(s, "UnboundLocalError")
    ELSE [s EXCEPT !.picam_manager.last_image = LastFrameName(c)]

\* capture_image with the settings c it reads at its start
CaptureSeries(s, vals, c) ==
    LET s1 == Refresh(Status(s, "Working..."))
        s2 == CaptureBranch(ColorEffects(s1, vals), c)
        s3 == AssignLastImage(s2, c)
    IN  Refresh(Status(s3, "Idle"))

capture_image(s, vals, save_location, fail) ==
    CaptureSeries(s, vals,
        [r |-> "run", save |-> save_location, ts |-> Timestamp(s.now),
         append |-> FileAppend(vals), n |-> s.picam_manager.img_count,
         exposure |-> s.picam_manager.exposure,
         time_step |-> s.picam_manager.time_step,
         dng |-> s.picam_manager.DNG_convert,
         twin |-> s.picam_manager.delete_JPG_twin, fail |-> fail])

\* for key, value in self.default_settings.items(): setattr(self, key, value)
SetDefaults(s, d) ==
    IF s.exc # "" THEN s
    ELSE [s EXCEPT !.picam_manager.brightness = d.brightness,
                   !.picam_manager.contrast = d.contrast,
                   !.picam_manager.saturation = d.saturation,
                   !.picam_manager.sharpness = d.sharpness,
                   !.picam_manager.image_no = PyI(d.image_no),
                   !.picam_manager.exposure = d.exposure,
                   !.picam_manager.time_step = d.time_step,
                   !.picam_manager.vid_time = PyI(d.vid_time)]

reset_to_default(s) == PushToCamera(SetDefaults(s, default_settings))

---------------------------------------------------------------------------
(* Reading the window, and the handlers both event loops share             *)

WIN_CLOSED == "WIN_CLOSED"

TIMEOUT_KEY == "__TIMEOUT__"

\* the values dict of a closed window
None == <<>>

IsNone(vals) == DOMAIN vals = {}

\* the values dict read_all_windows returns for the widgets w
ReadValues(w) ==
    [k \in SpinKeys \cup CheckboxKeys |->
        IF k \in SpinKeys THEN SpinRead(k, w[k]) ELSE w[k]]

\* utils.set_date_time(): a popup, then `sudo date -s`; date = "set": the
\* operator enters the date and time at which the program started
set_date_time(s, date) ==
    IF s.exc # "" THEN s
    ELSE IF date = "set"
         THEN [Log(s, "popup", "", "Input date and time") EXCEPT !.now = 0]
         ELSE Log(s, "popup", "", "Input date and time")

\* utils.plate_solver(t3, img_path); solve: what solve_from_image does
plate_solver(s, img_path, solve) ==
    IF s.exc # "" THEN s
    ELSE IF img_path \notin s.files THEN Raise(s, "FileNotFoundError")
    ELSE IF solve = "raise" THEN Raise(s, "SolverError")
    ELSE IF solve = "match" THEN Log(s, "popup", "", "Location")
    ELSE Log(s, "popup", "", "No match has been found.")

\* sg.PopupGetFolder(...): the folder picked, or an empty string or None when
\* the dialog is cancelled
SaveLocation(s, folder) ==
    IF s.exc # "" THEN s ELSE [s EXCEPT !.img_save_directory = folder]

\* the resolutions of the live preview
resolution_list == <<<<640, 480>>, <<1280, 720>>, <<1920, 1080>>, <<2560, 1440>>>>

\* camera.start_preview(resolution=(w, h), fullscreen=False, window=(0, 0, w, h))
StartPreview(s, res) ==
    IF s.exc # "" THEN s
    ELSE IF s.camera.closed THEN Raise(s, "PiCameraClosed")
    ELSE Log([s EXCEPT !.camera.preview = TRUE], "start_preview", "", res)

\* the exit branch: camera.stop_preview(), camera.close(), window.close(), return
ExitProgram(s) ==
    IF s.exc # "" THEN s
    ELSE LET s1 == Log([s EXCEPT !.camera.preview = FALSE], "stop_preview", "", 0)
             s2 == Log([s1 EXCEPT !.camera.closed = TRUE,
                                  !.camera.recording = FALSE], "close", "", 0)
             s3 == Log([s2 EXCEPT !.window.closed = TRUE], "window_close", "", 0)
         IN  [s3 EXCEPT !.pc = "returned"]

\* window[key].update(v) for the eight numeric controls
UpdateControls(s, d) ==
    IF s.exc # "" THEN s
    ELSE Log([s EXCEPT !.window = [k \in DOMAIN @ |-> IF k \in DOMAIN d THEN d[k] ELSE @[k]]],
             "update_controls", "", 0)

\* an exception leaves the loop, were the camera not opened by a `with`
Finish_without_with(s) ==
    IF s.exc = "" THEN s ELSE [s EXCEPT !.pc = "raised"]

\* leaving the `with picamera.PiCamera(...)` block on an exception closes the camera
Finish(s) ==
    IF s.exc = "" THEN s
    ELSE [s EXCEPT !.pc = "raised", !.camera.closed = TRUE,
                   !.camera.preview = FALSE, !.camera.recording = FALSE]

\* the inputs of one iteration besides the event: where the device or the
\* converter fails, the folder and the date the operator enters, the solver
NoInput == [fail |-> NoFail, folder |-> PyNone, date |-> "cancel", solve |-> "match"]

---------------------------------------------------------------------------
(* run(): one iteration of the event loop of rev "run"                     *)

\* the index resize_preview computes from the res_counter it is given
ResizeIndex(counter, ev) ==
    IF ev = "+ Resize +"
    THEN IF counter + 1 < Len(resolution_list) - 1
         THEN counter + 1 ELSE Len(resolution_list) - 1
    ELSE IF counter - 1 > 0 THEN counter - 1 ELSE 0

\* resize_preview(event, camera, res_counter, resolution_list): res_counter is
\* a parameter of the function, the counter of run() is not assigned
resize_preview(s, ev) ==
    Sleep(StartPreview(s, resolution_list[ResizeIndex(s.res_counter, ev) + 1]), 1)

\* line 119: if values["convertdng"] is True: picam_manager.DNG_convert = True
run_convertdng(s, vals) ==
    IF s.exc # "" THEN s
    ELSE IF IsNone(vals) THEN Raise(s, "TypeError")
    ELSE IF vals["convertdng"] THEN [s EXCEPT !.picam_manager.DNG_convert = TRUE]
    ELSE s

\* lines 119-123: the convertdng flag, then the settings
run_common(s, vals) == update_camera_settings(run_convertdng(s, vals), vals)

\* lines 163-170: the controls show the settings of the manager
run_show_settings(s) ==
    UpdateControls(s,
        [brightness_slider |-> IntToStr(s.picam_manager.brightness),
         contrast_slider |-> IntToStr(s.picam_manager.contrast),
         saturation_slider |-> IntToStr(s.picam_manager.saturation),
         sharpness_slider |-> IntToStr(s.picam_manager.sharpness),
         exposure_slider |-> IntToStr(s.picam_manager.exposure),
         no_images_slider |-> IntToStr(s.picam_manager.img_count),
         time_step_slider |-> IntToStr(s.picam_manager.time_step),
         video_duration_slider |-> Fmt(s.picam_manager.vid_time)])

\* lines 157-170: reset, then show the settings in the controls
run_defaults(s) == run_show_settings(reset_to_default(s))

\* the handlers before the settings (lines 94-116)
run_early(s, ev, inp) ==
    IF ev = "Set Date-Time" THEN set_date_time(s, inp.date)
    ELSE IF ev = "Where am I?" THEN plate_solver(s, s.picam_manager.last_image, inp.solve)
    ELSE IF ev = "Save Location" THEN SaveLocation(s, inp.folder)
    \* gui_manager.create_image_window(last_image): the method takes one
    \* positional argument and gets two
    ELSE IF ev = "Last Image" THEN Raise(s, "TypeError")
    ELSE s

\* the exit branch (lines 126-133)
run_exit(s, ev) == IF ev \in {WIN_CLOSED, "Exit"} THEN ExitProgram(s) ELSE s

\* the handlers after the exit branch, were a Record to go on into the
\* Capture handler
run_late_record_then_capture(s, ev, vals, inp) ==
    IF ev = "Record"
    THEN capture_image(capture_video(s, vid_save_directory, inp.fail), vals,
                       s.img_save_directory, inp.fail)
    ELSE IF ev = "Capture" THEN capture_image(s, vals, s.img_save_directory, inp.fail)
    ELSE s

\* the handlers after the exit branch (lines 136-170)
run_late(s, ev, vals, inp) ==
    IF ev \in {"+ Resize +", "- Resize -"} THEN resize_preview(s, ev)
    \* gui_manager.preview_overlay / remove_overlays: defined without self
    ELSE IF ev \in {"Crosshair On", "Crosshair Off"} THEN Raise(s, "TypeError")
    ELSE IF ev = "Record" THEN capture_video(s, vid_save_directory, inp.fail)
    ELSE IF ev = "Capture" THEN capture_image(s, vals, s.img_save_directory, inp.fail)
    ELSE IF ev = "Defaults" THEN run_defaults(s)
    ELSE s

run_iteration(s, ev, vals, inp) ==
    Finish(run_late(run_exit(run_common(run_early(s, ev, inp), vals), ev), ev, vals, inp))

---------------------------------------------------------------------------
(* main(): one iteration of the event loop of rev "main"                   *)

\* lines 616-622: the locals that go through int(), in order
MainOrder ==
    <<<<"cam_brightness", "brightness_slider">>, <<"cam_contrast", "contrast_slider">>,
      <<"cam_saturation", "saturation_slider">>, <<"cam_sharpness", "sharpness_slider">>,
      <<"cam_exposure", "exposure_slider">>, <<"cam_no_images", "no_images_slider">>,
      <<"cam_time_step", "time_step_slider">>>>

\* cam_<f> = int(x)
MainAssignInt(s, f, x) ==
    IF IntRaises(x) THEN Raise(s, "ValueError")
    ELSE [s EXCEPT !.main_locals[f] = PyI(PyInt(x))]

RECURSIVE MainAssignInts(_, _, _)
MainAssignInts(s, vals, i) ==
    IF i > Len(MainOrder) \/ s.exc # "" THEN s
    ELSE MainAssignInts(MainAssignInt(s, MainOrder[i][1], vals[MainOrder[i][2]]),
                        vals, i + 1)

\* line 612: if values['convertdng'] is True: Parameters.DNG_convert = True
main_convertdng(s, vals) ==
    IF s.exc # "" THEN s
    ELSE IF IsNone(vals) THEN Raise(s, "TypeError")
    ELSE IF vals["convertdng"] THEN [s EXCEPT !.main_locals.DNG_convert = TRUE]
    ELSE s

\* line 623: cam_vid_time = values['video_duration_slider']
MainAssignVidTime(s, vals) ==
    IF s.exc # "" THEN s
    ELSE [s EXCEPT !.main_locals.cam_vid_time = vals["video_duration_slider"]]

\* lines 626-629: the four attributes go to the camera
MainPushToCamera(s) ==
    ApplyToCamera(s, s.main_locals.cam_brightness.v, s.main_locals.cam_contrast.v,
                  s.main_locals.cam_saturation.v, s.main_locals.cam_sharpness.v)

\* lines 612-629: the convertdng flag, the cam_* locals, the camera
main_common(s, vals) ==
    MainPushToCamera(
        MainAssignVidTime(MainAssignInts(main_convertdng(s, vals), vals, 1), vals))

\* the counter after a Resize event
MainResizeIndex(counter, ev) ==
    IF ev = "+ Resize +"
    THEN IF counter = Len(resolution_list) - 1 THEN counter ELSE counter + 1
    ELSE IF counter = 0 THEN counter ELSE counter - 1

\* lines 642-670: the resolution counter, the preview restarted, a pause
main_resize(s, ev) ==
    IF s.exc # "" THEN s
    ELSE Sleep(StartPreview([s EXCEPT !.res_counter = MainResizeIndex(@, ev)],
                            resolution_list[MainResizeIndex(s.res_counter, ev) + 1]),
               1)

\* preview_overlay(camera, (width, height), img) and remove_overlays(camera)
main_crosshair(s, ev) ==
    IF s.exc # "" THEN s
    ELSE IF s.camera.closed THEN Raise(s, "PiCameraClosed")
    ELSE IF ev = "Crosshair On"
         THEN Log([s EXCEPT !.camera.overlays = 1], "add_overlay", "", 0)
         ELSE Log([s EXCEPT !.camera.overlays = 0], "remove_overlays", "", 0)

\* image_stacking(): folder_file_selecter() ends the process when no folder is given
main_stacking(s, folder) ==
    IF s.exc # "" THEN s
    ELSE IF folder.t = "none" THEN Raise(s, "SystemExit")
    ELSE Log(s, "popup", "", "Image tree")

\* line 783: Parameters.default_last_image = image_save_file_name, where name
\* is the image_save_file_name the loop leaves
MainAssignLastImage(s, name) ==
    IF s.exc # "" THEN s
    ELSE IF name.t = "unset" THEN Raise(s, "UnboundLocalError")
    ELSE [s EXCEPT !.main_locals.image_save_file_name = name,
                   !.default_last_image = name.s]

\* the Capture handler with the settings c it reads
MainCaptureSeries(s, vals, c) ==
    LET s1 == Refresh(Status(s, "Working..."))
        s2 == CaptureBranch(ColorEffects(s1, vals), c)
        s3 == MainAssignLastImage(s2,
                  IF c.n >= 1 THEN PyS(LastFrameName(c))
                  ELSE s.main_locals.image_save_file_name)
    IN  Refresh(Status(s3, "Idle"))

\* lines 705-783
main_capture(s, vals, ts, fail) ==
    MainCaptureSeries(s, vals,
        [r |-> "main", save |-> s.img_save_directory, ts |-> ts,
         append |-> FileAppend(vals), n |-> s.main_locals.cam_no_images.v,
         exposure |-> s.main_locals.cam_exposure.v,
         time_step |-> s.main_locals.cam_time_step.v,
         dng |-> s.main_locals.DNG_convert, twin |-> FALSE, fail |-> fail])

\* lines 785-794: the controls show the defaults of the Parameters class
main_defaults(s) ==
    UpdateControls(s,
        [brightness_slider |-> IntToStr(default_settings.brightness),
         contrast_slider |-> IntToStr(default_settings.contrast),
         saturation_slider |-> IntToStr(default_settings.saturation),
         sharpness_slider |-> IntToStr(default_settings.sharpness),
         exposure_slider |-> IntToStr(default_settings.exposure),
         no_images_slider |-> IntToStr(default_settings.image_no),
         time_step_slider |-> IntToStr(default_settings.time_step),
         video_duration_slider |-> IntToStr(default_settings.vid_time)])

\* the handlers before the settings (lines 592-610)
main_early(s, ev, inp) ==
    IF ev = "Set Date-Time" THEN set_date_time(s, inp.date)
    ELSE IF ev = "Where am I?" THEN plate_solver(s, s.default_last_image, inp.solve)
    ELSE IF ev = "Stacking Wizard" THEN main_stacking(s, inp.folder)
    ELSE IF ev = "Save Location" THEN SaveLocation(s, inp.folder)
    ELSE s

\* the exit branch (lines 631-640)
main_exit(s, ev) == IF ev \in {WIN_CLOSED, "Exit"} THEN ExitProgram(s) ELSE s

\* the handlers that follow the exit branch (lines 642-794)
main_late(s, ev, vals, ts, inp) ==
    IF ev \in {"+ Resize +", "- Resize -"} THEN main_resize(s, ev)
    ELSE IF ev \in {"Crosshair On", "Crosshair Off"} THEN main_crosshair(s, ev)
    ELSE IF ev = "Record"
         THEN RecordVideo(s, "main", vid_save_directory, ts,
                          s.main_locals.cam_vid_time, inp.fail)
    ELSE IF ev = "Capture" THEN main_capture(s, vals, ts, inp.fail)
    ELSE IF ev = "Defaults" THEN main_defaults(s)
    ELSE s

\* one iteration for every event but Last Image, which opens a second window;
\* the time stamp is taken at the top of the loop (lines 581-586)
main_iteration(s, ev, vals, inp) ==
    Finish(main_late(main_exit(main_common(main_early(s, ev, inp), vals), ev),
                     ev, vals, Timestamp(s.now), inp))

\* create_image_window(image) up to its event loop: Image.open(image) needs the file
image_window_open(s) ==
    IF s.default_last_image \notin s.files THEN Finish(Raise(s, "FileNotFoundError"))
    ELSE [Log(s, "image_window", s.default_last_image, 0) EXCEPT !.pc = "image_window"]

\* the Delete event without the test for the placeholder
image_window_delete_removes_placeholder(s) ==
    IF s.default_last_image \notin s.files
    THEN Log(s, "print", "", "File not found, continuing.")
    ELSE [Log(s, "remove", s.default_last_image, 0)
             EXCEPT !.files = @ \ {s.default_last_image},
                    !.default_last_image = Placeholder("main")]

\* the Delete event with the assignment of the placeholder left out
image_window_delete_keeps_reference(s) ==
    IF s.default_last_image \in {Placeholder("main")} THEN s
    ELSE IF s.default_last_image \notin s.files
         THEN Log(s, "print", "", "File not found, continuing.")
         ELSE [Log(s, "remove", s.default_last_image, 0)
                  EXCEPT !.files = @ \ {s.default_last_image}]

\* the Delete event with the placeholder assigned before os.remove is tried
image_window_delete_resets_first(s) ==
    IF s.default_last_image \in {Placeholder("main")} THEN s
    ELSE IF s.default_last_image \notin s.files
         THEN [Log(s, "print", "", "File not found, continuing.")
                  EXCEPT !.default_last_image = Placeholder("main")]
         ELSE [Log(s, "remove", s.default_last_image, 0)
                  EXCEPT !.files = @ \ {s.default_last_image},
                         !.default_last_image = Placeholder("main")]

\* the Delete event of the Last Image window (lines 286-297)
image_window_delete(s) ==
    IF s.default_last_image \in {Placeholder("main")} THEN s
    ELSE IF s.default_last_image \notin s.files
         THEN Log(s, "print", "", "File not found, continuing.")
         ELSE [Log(s, "remove", s.default_last_image, 0)
                  EXCEPT !.files = @ \ {s.default_last_image},
                         !.default_last_image = Placeholder("main")]

\* Return or the window closed: window.close(), and the iteration goes on
image_window_return(s, vals) ==
    Finish(main_common([Log(s, "image_window_close", "", 0) EXCEPT !.pc = "loop"], vals))

---------------------------------------------------------------------------
(* The state after construction: the window built, the camera opened and   *)
(* attached, the preview started                                           *)

InitWindow ==
    [brightness_slider |-> IntToStr(default_settings.brightness),
     contrast_slider |-> IntToStr(default_settings.contrast),
     saturation_slider |-> IntToStr(default_settings.saturation),
     sharpness_slider |-> IntToStr(default_settings.sharpness),
     exposure_slider |-> IntToStr(default_settings.exposure),
     no_images_slider |-> IntToStr(default_settings.image_no),
     time_step_slider |-> IntToStr(default_settings.time_step),
     video_duration_slider |-> IntToStr(default_settings.vid_time),
     greyscale |-> FALSE, convertdng |-> FALSE,
     dark |-> FALSE, light |-> FALSE, flat |-> FALSE, bias |-> FALSE,
     status |-> "Idle", closed |-> FALSE]

InitManager ==
    [camera_attached |-> TRUE,
     brightness |-> 50, contrast |-> 0, saturation |-> 0, sharpness |-> 0,
     img_count |-> 1, exposure |-> 1, time_step |-> 2, vid_time |-> PyI(10),
     exposure_img_count |-> Unset, image_no |-> Unset,
     last_image |-> Placeholder("run"),
     DNG_convert |-> FALSE, delete_JPG_twin |-> FALSE]

InitLocals ==
    [cam_brightness |-> Unset, cam_contrast |-> Unset, cam_saturation |-> Unset,
     cam_sharpness |-> Unset, cam_exposure |-> Unset, cam_no_images |-> Unset,
     cam_time_step |-> Unset, cam_vid_time |-> Unset,
     DNG_convert |-> FALSE, image_save_file_name |-> Unset]

InitCamera ==
    [closed |-> FALSE, preview |-> TRUE, recording |-> FALSE, overlays |-> 0,
     brightness |-> 50, contrast |-> 0, saturation |-> 0, sharpness |-> 0,
     framerate |-> <<30, 1>>, shutter_speed |-> 0, iso |-> 0,
     exposure_mode |-> "auto", color_effects |-> <<>>, resolution |-> <<3280, 2464>>]

Init ==
    /\ rev \in {"run", "main"}
    /\ pc = "loop"
    /\ exc = ""
    /\ event = ""
    /\ values = None
    /\ window = InitWindow
    /\ picam_manager = InitManager
    /\ main_locals = InitLocals
    /\ default_last_image = Placeholder("main")
    /\ img_save_directory = PyS(IMAGE_SAVE_FOLDER)
    /\ vid_save_directory = PyS(VIDEO_SAVE_FOLDER)
    /\ res_counter = 0
    /\ camera = InitCamera
    /\ files = {Placeholder(rev)}
    /\ now = 0
    /\ ops = <<>>
    /\ edits = 0
    /\ clicks = 0
    /\ shots = 0
    /\ ticks = 0

---------------------------------------------------------------------------
(* Actions *)

\* the variables take the state the handler leaves; event is the event read
\* last, by the main window or by the Last Image window
Commit(s, ev, vals) ==
    /\ pc' = s.pc
    /\ exc' = s.exc
    /\ event' = ev
    /\ values' = vals
    /\ window' = s.window
    /\ picam_manager' = s.picam_manager
    /\ main_locals' = s.main_locals
    /\ default_last_image' = s.default_last_image
    /\ img_save_directory' = s.img_save_directory
    /\ res_counter' = s.res_counter
    /\ camera' = s.camera
    /\ files' = s.files
    /\ now' = s.now
    /\ ops' = s.ops
    /\ UNCHANGED <<rev, vid_save_directory>>

\* the handlers of the revision run on s, and the variables take what they leave
Step(s, ev, vals, inp) ==
    Commit(IF rev = "run" THEN run_iteration(s, ev, vals, inp)
           ELSE main_iteration(s, ev, vals, inp), ev, vals)

\* one iteration of the loop: read_all_windows gives ev and the values of the
\* widgets w, and the handlers run
Iterate(w, ev, inp) ==
    /\ pc = "loop"
    /\ Step([Cur EXCEPT !.window = w], ev,
            IF ev = WIN_CLOSED THEN None ELSE ReadValues(w), inp)

Budgets == <<edits, clicks, shots, ticks>>

\* typing, clicking a checkbox and waiting prepare the next Capture or
\* Record: they are explored while one is left
ShotLeft == shots < MaxShots

\* the operator types text into one of the numeric controls keys; typing is
\* no event, and the loop, which reads with timeout 0, goes round at once
\* with the new text; at most max such edits
UserTypes(keys, max) ==
    /\ edits < max
    /\ ShotLeft
    /\ \E k \in keys : \E text \in TypedTexts(k) :
          /\ window[k] # text
          /\ Iterate([window EXCEPT ![k] = text], TIMEOUT_KEY, NoInput)
    /\ edits' = edits + 1
    /\ UNCHANGED <<clicks, shots, ticks>>

\* a second passes while the loop polls; at most max such seconds
Tick(max) ==
    /\ pc \in {"loop", "image_window"}
    /\ ticks < max
    /\ ShotLeft
    /\ now' = now + 1
    /\ ticks' = ticks + 1
    /\ UNCHANGED <<rev, pc, exc, event, values, window, picam_manager, main_locals,
                   default_last_image, img_save_directory, vid_save_directory,
                   res_counter, camera, files, ops, edits, clicks, shots>>

\* the last image
LastImage == IF rev = "run" THEN picam_manager.last_image ELSE default_last_image

\* the file of the last image is removed by someone else
ExternalRemove ==
    /\ pc \in {"loop", "image_window"}
    /\ LastImage # Placeholder(rev)
    /\ LastImage \in files
    /\ files' = files \ {LastImage}
    /\ UNCHANGED <<rev, pc, exc, event, values, window, picam_manager, main_locals,
                   default_last_image, img_save_directory, vid_save_directory,
                   res_counter, camera, now, ops, edits, clicks, shots, ticks>>

\* no event within the timeout
Timeout ==
    /\ Iterate(window, TIMEOUT_KEY, NoInput)
    /\ UNCHANGED Budgets

\* a checkbox of keys is clicked: it flips and its key is the event; at most
\* max clicks
Click(keys, max) ==
    /\ clicks < max
    /\ ShotLeft
    /\ \E k \in keys : Iterate([window EXCEPT ![k] = ~@], k, NoInput)
    /\ clicks' = clicks + 1
    /\ UNCHANGED <<edits, shots, ticks>>

\* the same, any number of times
ClickFreely(keys) ==
    /\ ShotLeft
    /\ \E k \in keys : Iterate([window EXCEPT ![k] = ~@], k, NoInput)
    /\ UNCHANGED Budgets

SetDateTime ==
    /\ \E d \in {"cancel", "set"} :
          Iterate(window, "Set Date-Time", [NoInput EXCEPT !.date = d])
    /\ UNCHANGED Budgets

WhereAmI ==
    /\ \E sv \in {"match", "nomatch", "raise"} :
          Iterate(window, "Where am I?", [NoInput EXCEPT !.solve = sv])
    /\ UNCHANGED Budgets

StackingWizard ==
    /\ \E f \in {PyNone, PyS(UsbFolder)} :
          Iterate(window, "Stacking Wizard", [NoInput EXCEPT !.folder = f])
    /\ UNCHANGED Budgets

SaveLocationEvent ==
    /\ \E f \in {PyNone, PyS(<<>>), PyS(UsbFolder)} :
          Iterate(window, "Save Location", [NoInput EXCEPT !.folder = f])
    /\ UNCHANGED Budgets

\* rev "run": the handler raises; rev "main": the Last Image window opens
LastImageEvent ==
    /\ pc = "loop"
    /\ IF rev = "run"
       THEN Iterate(window, "Last Image", NoInput)
       ELSE Commit(image_window_open(Cur), "Last Image", ReadValues(window))
    /\ UNCHANGED Budgets

ImageWindowDelete ==
    /\ pc = "image_window"
    /\ Commit(image_window_delete(Cur), "Delete", values)
    /\ UNCHANGED Budgets

ImageWindowReturn ==
    /\ pc = "image_window"
    /\ Commit(image_window_return(Cur, values), "Return", values)
    /\ UNCHANGED Budgets

ExitEvent ==
    /\ Iterate(window, "Exit", NoInput)
    /\ UNCHANGED Budgets

WindowClosed ==
    /\ Iterate(window, WIN_CLOSED, NoInput)
    /\ UNCHANGED Budgets

\* a Resize button; the preview restarts and a second passes; at most max presses
ResizeEvent(max) ==
    /\ ticks < max
    /\ \E ev \in {"+ Resize +", "- Resize -"} : Iterate(window, ev, NoInput)
    /\ ticks' = ticks + 1
    /\ UNCHANGED <<edits, clicks, shots>>

CrosshairEvent ==
    /\ \E ev \in {"Crosshair On", "Crosshair Off"} : Iterate(window, ev, NoInput)
    /\ UNCHANGED Budgets

\* Record; at most max Capture and Record actions
RecordEvent(max) ==
    /\ shots < max
    /\ \E f \in {NoFail, [frame |-> 0, what |-> "record"]} :
          Iterate(window, "Record", [NoInput EXCEPT !.fail = f])
    /\ shots' = shots + 1
    /\ UNCHANGED <<edits, clicks, ticks>>

\* Capture; at most max Capture and Record actions
CaptureEvent(max) ==
    /\ shots < max
    /\ \E f \in FailPoints : Iterate(window, "Capture", [NoInput EXCEPT !.fail = f])
    /\ shots' = shots + 1
    /\ UNCHANGED <<edits, clicks, ticks>>

\* the reset button: 'Defaults' in rev "main", 'Set to Default' in rev "run"
ResetButton ==
    /\ Iterate(window, IF rev = "run" THEN "Set to Default" ELSE "Defaults", NoInput)
    /\ UNCHANGED Budgets

\* the event 'Defaults' reaches run(): its handler calls reset_to_default
RunDefaultsEvent ==
    /\ rev = "run"
    /\ Iterate(window, "Defaults", NoInput)
    /\ UNCHANGED Budgets

---------------------------------------------------------------------------
(* Specifications.  Spec is the whole program.  The others keep the acts a  *)
(* family of properties is about.                                          *)

Next ==
    \/ UserTypes(SpinKeys, MaxEdits)
    \/ Tick(MaxTicks)
    \/ ExternalRemove
    \/ Timeout
    \/ Click(CheckboxKeys, MaxClicks)
    \/ SetDateTime
    \/ WhereAmI
    \/ StackingWizard
    \/ SaveLocationEvent
    \/ LastImageEvent
    \/ ImageWindowDelete
    \/ ImageWindowReturn
    \/ ExitEvent
    \/ WindowClosed
    \/ ResizeEvent(MaxTicks)
    \/ CrosshairEvent
    \/ RecordEvent(MaxShots)
    \/ CaptureEvent(MaxShots)
    \/ ResetButton

Spec == Init /\ [][Next]_vars

\* the settings: typing into any control, polling, the reset button, and the
\* event 'Defaults' delivered to run()
NextSettings ==
    \/ UserTypes(SpinKeys, MaxEdits)
    \/ Timeout
    \/ ResetButton
    \/ RunDefaultsEvent

SpecSettings == Init /\ [][NextSettings]_vars

\* the controls a capture reads
CaptureKeys == {"exposure_slider", "no_images_slider", "time_step_slider"}

\* still capture: exposure, image count and time step typed, DNG conversion clicked,
\* Capture pressed
NextCapture ==
    \/ UserTypes(CaptureKeys, MaxEdits)
    \/ Click({"convertdng"}, MaxClicks)
    \/ Tick(MaxTicks)
    \/ CaptureEvent(MaxShots)

SpecCapture == Init /\ [][NextCapture]_vars

\* the frame tags: any of the four clicked any number of times, the exposure
\* typed, Capture pressed
NextTags ==
    \/ ClickFreely(TagKeys)
    \/ UserTypes({"exposure_slider"}, MaxEdits)
    \/ CaptureEvent(MaxShots)

SpecTags == Init /\ [][NextTags]_vars

\* video and stills: the duration and the image count typed, grey scale
\* clicked, Record or Capture pressed
NextRecord ==
    \/ UserTypes({"video_duration_slider", "no_images_slider"}, MaxEdits)
    \/ Click({"greyscale"}, MaxClicks)
    \/ Tick(MaxTicks)
    \/ RecordEvent(MaxShots)
    \/ CaptureEvent(MaxShots)

SpecRecord == Init /\ [][NextRecord]_vars

\* the Last Image window: the image count typed, DNG conversion
\* clicked, captures, the window opened, Delete and Return, the
\* file removed by someone else
NextLastImage ==
    \/ UserTypes({"no_images_slider"}, MaxEdits)
    \/ Click({"convertdng"}, MaxClicks)
    \/ Tick(MaxTicks)
    \/ CaptureEvent(MaxShots)
    \/ LastImageEvent
    \/ ImageWindowDelete
    \/ ImageWindowReturn
    \/ ExternalRemove

SpecLastImage == Init /\ [][NextLastImage]_vars

\* the ways out of the loop: Exit, the window closed, and the errors of the
\* handlers (a brightness out of range or empty, the crosshair and Last Image
\* of run(), the device failing during a Capture or a Record)
NextExit ==
    \/ UserTypes({"brightness_slider"}, MaxEdits)
    \/ Tick(MaxTicks)
    \/ ExitEvent
    \/ WindowClosed
    \/ CrosshairEvent
    \/ LastImageEvent
    \/ ImageWindowReturn
    \/ RecordEvent(MaxShots)
    \/ CaptureEvent(MaxShots)

SpecExit == Init /\ [][NextExit]_vars

\* the plate solver: captures, the file of the last image removed by someone
\* else, 'Where am I?' pressed
NextSolver ==
    \/ UserTypes({"exposure_slider"}, MaxEdits)
    \/ Tick(MaxTicks)
    \/ CaptureEvent(MaxShots)
    \/ ExternalRemove
    \/ WhereAmI

SpecSolver == Init /\ [][NextSolver]_vars

\* the exposures the operator picks between two captures: the normal
\* branch, and the least and the greatest long exposure of the control
ExposureTexts == {<<"1">>, <<"2">>, <<"1", "9", "9">>}

\* the operator sets the exposure control, before or after a Capture, and
\* the loop goes round with it
SetExposure ==
    /\ edits < MaxEdits
    /\ \E text \in ExposureTexts :
          /\ window["exposure_slider"] # text
          /\ Iterate([window EXCEPT !["exposure_slider"] = text], TIMEOUT_KEY, NoInput)
    /\ edits' = edits + 1
    /\ UNCHANGED <<clicks, shots, ticks>>

\* series of captures: the exposure set, the image count and the time step
\* typed, the clock set, Capture pressed once more than in the other
\* specifications
NextSeries ==
    \/ SetExposure
    \/ UserTypes({"no_images_slider", "time_step_slider"}, MaxEdits)
    \/ SetDateTime
    \/ CaptureEvent(MaxShots + 1)

SpecSeries == Init /\ [][NextSeries]_vars

\* the size of the preview: the Resize buttons pressed, up to the end of the
\* resolution list and back, between edits of the controls
NextResize ==
    \/ ResizeEvent(MaxTicks + 3)
    \/ UserTypes({"brightness_slider", "contrast_slider"}, MaxEdits)
    \/ Click({"greyscale"}, MaxClicks)

SpecResize == Init /\ [][NextResize]_vars

\* the operator types an image count, before or after a Capture, and the
\* loop goes round with it
SetImageCount ==
    /\ edits < MaxEdits
    /\ \E text \in TypedTexts("no_images_slider") :
          /\ window["no_images_slider"] # text
          /\ Iterate([window EXCEPT !["no_images_slider"] = text], TIMEOUT_KEY, NoInput)
    /\ edits' = edits + 1
    /\ UNCHANGED <<clicks, shots, ticks>>

\* the last image over several captures: the image count typed, Capture
\* pressed once more than in the other specifications, the Last Image window
\* opened, Delete and Return, the file removed by someone else
NextReference ==
    \/ SetImageCount
    \/ CaptureEvent(MaxShots + 1)
    \/ LastImageEvent
    \/ ImageWindowDelete
    \/ ImageWindowReturn
    \/ ExternalRemove

SpecReference == Init /\ [][NextReference]_vars

\* the save folder: Save Location answered with a folder or cancelled, the
\* image count typed, Capture and Record pressed
NextSave ==
    \/ SaveLocationEvent
    \/ UserTypes({"no_images_slider"}, MaxEdits)
    \/ Tick(MaxTicks)
    \/ CaptureEvent(MaxShots)
    \/ RecordEvent(MaxShots)

SpecSave == Init /\ [][NextSave]_vars

---------------------------------------------------------------------------
(* PiCamManager as its constructor leaves it: self.camera is None until   *)
(* run() enters the with block and attaches the camera                     *)

\* no device is open
NoCamera == [InitCamera EXCEPT !.closed = TRUE, !.preview = FALSE]

InitDetached ==
    /\ rev = "run"
    /\ pc = "construct"
    /\ exc = ""
    /\ event = ""
    /\ values = None
    /\ window = InitWindow
    /\ picam_manager = [InitManager EXCEPT !.camera_attached = FALSE]
    /\ main_locals = InitLocals
    /\ default_last_image = Placeholder("main")
    /\ img_save_directory = PyS(IMAGE_SAVE_FOLDER)
    /\ vid_save_directory = PyS(VIDEO_SAVE_FOLDER)
    /\ res_counter = 0
    /\ camera = NoCamera
    /\ files = {Placeholder("run")}
    /\ now = 0
    /\ ops = <<>>
    /\ edits = 0
    /\ clicks = 0
    /\ shots = 0
    /\ ticks = 0

\* picam_manager.update_camera_settings(values) with the values of the
\* controls after one of them was edited; at most MaxEdits such calls
UpdateDetached ==
    /\ pc = "construct" /\ exc = ""
    /\ edits < MaxEdits
    /\ \E k \in SpinKeys : \E text \in TypedTexts(k) :
          /\ window[k] # text
          /\ Commit(update_camera_settings([Cur EXCEPT !.window[k] = text],
                                           ReadValues([window EXCEPT ![k] = text])),
                    "update_camera_settings", ReadValues([window EXCEPT ![k] = text]))
    /\ edits' = edits + 1
    /\ UNCHANGED <<clicks, shots, ticks>>

\* picam_manager.reset_to_default()
ResetDetached ==
    /\ pc = "construct" /\ exc = ""
    /\ Commit(reset_to_default(Cur), "reset_to_default", values)
    /\ UNCHANGED Budgets

NextDetached ==
    \/ UpdateDetached
    \/ ResetDetached

SpecDetached == InitDetached /\ [][NextDetached]_vars

---------------------------------------------------------------------------
(* What the properties below read off a state                              *)

\* the frames the last action captured, in order
Captured == SelectSeq(ops, LAMBDA o : o.op = "capture")

\* the number typed into or picked on a numeric control, as the last read gave it
Control(k) == PyInt(values[k])

\* the last action was a Capture that ran to its end
CaptureDone == event = "Capture" /\ pc = "loop"

---------------------------------------------------------------------------
(* Properties of the settings                                              *)

\* C1: after the reset (the handler of the event 'Defaults' of run(), which
\* calls reset_to_default), brightness is 50, contrast, saturation and
\* sharpness are 0, the exposure is 1, the image count is 1, the time step is
\* 2, the video duration is 10, and the count stored from the 'Number of
\* images' control does not keep the value it had before the reset
C1_ResetYieldsDefaults ==
    (rev = "run" /\ event = "Defaults" /\ pc = "loop") =>
        /\ picam_manager.brightness = 50
        /\ picam_manager.contrast = 0
        /\ picam_manager.saturation = 0
        /\ picam_manager.sharpness = 0
        /\ picam_manager.exposure = 1
        /\ picam_manager.img_count = 1
        /\ picam_manager.time_step = 2
        /\ picam_manager.vid_time = PyI(10)
        /\ picam_manager.exposure_img_count = PyI(1)

\* C2: a Capture with exposure <= 1 and n >= 1 on the 'Number of images'
\* control captures exactly n frames, named with the indices 0 .. n-1 and one
\* time stamp
C2_NormalBranchCapturesN ==
    (CaptureDone /\ Control("no_images_slider") >= 1 /\ Control("exposure_slider") <= 1) =>
        /\ Len(Captured) = Control("no_images_slider")
        /\ \E t \in 0..now : \A i \in 1..Len(Captured) :
              Captured[i].a = NormalName(rev, img_save_directory, Timestamp(t), i - 1,
                                         FileAppend(values))

\* a stored number lies in dom; a field not yet assigned is not judged
Within(x, dom) == x.t = "unset" \/ (x.t = "int" /\ x.v \in dom)

\* C3: the stored settings stay in their domains whatever is typed: brightness
\* in 0..100, contrast and saturation in -100..100, sharpness, exposure and
\* time step >= 0, image count and video duration >= 1
C3_FieldsInDomain ==
    IF rev = "run"
    THEN /\ picam_manager.brightness \in 0..100
         /\ picam_manager.contrast \in -100..100
         /\ picam_manager.saturation \in -100..100
         /\ picam_manager.sharpness >= 0
         /\ picam_manager.exposure >= 0
         /\ picam_manager.img_count >= 1
         /\ Within(picam_manager.exposure_img_count, Nat \ {0})
         /\ picam_manager.time_step >= 0
         /\ Within(picam_manager.vid_time, Nat \ {0})
    ELSE /\ Within(main_locals.cam_brightness, 0..100)
         /\ Within(main_locals.cam_contrast, -100..100)
         /\ Within(main_locals.cam_saturation, -100..100)
         /\ Within(main_locals.cam_sharpness, Nat)
         /\ Within(main_locals.cam_exposure, Nat)
         /\ Within(main_locals.cam_no_images, Nat \ {0})
         /\ Within(main_locals.cam_time_step, Nat)
         /\ Within(main_locals.cam_vid_time, Nat \ {0})

---------------------------------------------------------------------------
(* Properties of Capture and Record                                        *)

\* C4: when a Capture or a Record has ended, also on an error of the device,
\* the status is Idle again
C4_BusyReturnsToIdle ==
    event \in {"Capture", "Record"} => window.status = "Idle"

\* C7: when a Capture that wrote n >= 1 frames has ended, the last image is
\* the file of the frame written last, and its index is n - 1
C7_LastImageIsLastFrame ==
    (CaptureDone /\ Len(Captured) >= 1) =>
        /\ LastImage = Captured[Len(Captured)].a
        /\ \E t \in 0..now :
              LastImage =
                 IF Control("exposure_slider") > 1
                 THEN LongExposureName(rev, img_save_directory, Timestamp(t),
                                       Len(Captured) - 1, Control("exposure_slider"),
                                       FileAppend(values))
                 ELSE NormalName(rev, img_save_directory, Timestamp(t),
                                 Len(Captured) - 1, FileAppend(values))

\* a long exposure Capture of two frames has ended; the second is the last image
C7_Witness ==
    /\ CaptureDone
    /\ Control("exposure_slider") > 1
    /\ Len(Captured) = 2
    /\ Captured[1].a # Captured[2].a
    /\ LastImage = Captured[2].a

\* C8: a Capture during which the DNG converter fails is not aborted: it runs
\* to its end, the status is Idle, and the last image is the frame written last
C8_ConversionFailureDoesNotAbort ==
    (event = "Capture" /\ exc = "DNGError") =>
        /\ pc = "loop"
        /\ window.status = "Idle"
        /\ Len(Captured) >= 1
        /\ LastImage = Captured[Len(Captured)].a

\* the tags in the order in which the suffix names them
TagOrder == <<"dark", "light", "flat", "bias">>

\* '_' and the name of a tag
TagText(tag) ==
    CASE tag = "dark" -> <<"_", "d", "a", "r", "k">>
      [] tag = "light" -> <<"_", "l", "i", "g", "h", "t">>
      [] tag = "flat" -> <<"_", "f", "l", "a", "t">>
      [] tag = "bias" -> <<"_", "b", "i", "a", "s">>

\* the suffix of the tags checked, from the i-th tag of TagOrder on
RECURSIVE TagSuffix(_, _)
TagSuffix(checked, i) ==
    IF i > Len(TagOrder) THEN <<>>
    ELSE (IF TagOrder[i] \in checked THEN TagText(TagOrder[i]) ELSE <<>>)
         \o TagSuffix(checked, i + 1)

\* C9: every frame a Capture writes is named with '_' + tag for the tags
\* checked, in the order dark, light, flat, bias, between the index (and the
\* long exposure mark) and the extension, and with nothing there when no tag
\* is checked
C9_TagSuffixOrder ==
    event = "Capture" =>
        \A i \in 1..Len(Captured) : \E t \in 0..now :
            Captured[i].a =
                Fmt(img_save_directory) \o ImagePrefix(rev) \o Timestamp(t)
                \o <<"_", "n", "o", "-">> \o IntToStr(i - 1)
                \o (IF Control("exposure_slider") > 1
                    THEN <<"_", "L", "E", "_">> \o IntToStr(Control("exposure_slider"))
                         \o <<"s">>
                    ELSE <<>>)
                \o TagSuffix({k \in TagKeys : values[k]}, 1)
                \o <<".", "j", "p", "e", "g">>

\* a Capture with dark and flat checked has written a file ..._dark_flat.jpeg
C9_Witness ==
    /\ CaptureDone
    /\ {k \in TagKeys : values[k]} = {"dark", "flat"}
    /\ Len(Captured) = 1
    /\ SubSeq(Captured[1].a, Len(Captured[1].a) - 14, Len(Captured[1].a))
          = <<"_", "d", "a", "r", "k", "_", "f", "l", "a", "t", ".", "j", "p", "e", "g">>

\* C10: no file that Capture or Record creates has a colon in its name
C10_NoColonInFilenames ==
    \A f \in files : \A i \in 1..Len(f) : f[i] # ":"

---------------------------------------------------------------------------
(* Properties of the Last Image window (rev "main": the window of rev      *)
(* "run" has no Delete)                                                    *)

\* C5: a Delete in the Last Image window, when the last image is a captured
\* file that exists, removes that file and no other, and makes the
\* placeholder the last image
C5_DeleteRemovesAndResets ==
    [][(pc = "image_window" /\ event' = "Delete"
        /\ default_last_image # Placeholder("main") /\ default_last_image \in files)
       => (/\ files' = files \ {default_last_image}
           /\ default_last_image' = Placeholder("main"))]_vars

\* a Delete has removed the captured file the last image was
C5_Witness ==
    /\ pc = "image_window" /\ event = "Delete"
    /\ Len(ops) = 1 /\ ops[1].op = "remove"
    /\ ops[1].a \notin files
    /\ ops[1].a # Placeholder("main")
    /\ default_last_image = Placeholder("main")

\* C6: a Delete in the Last Image window, when the file of the last image
\* does not exist, raises nothing, and leaves the last image, the settings,
\* the camera and the files as they are
C6_DeleteOfMissingFile ==
    [][(pc = "image_window" /\ event' = "Delete" /\ default_last_image \notin files)
       => (/\ pc' = "image_window" /\ exc' = ""
           /\ UNCHANGED <<default_last_image, main_locals, picam_manager, camera,
                          window, files, img_save_directory>>)]_vars

\* a Delete has met a last image whose file is gone
C6_Witness ==
    /\ pc = "image_window" /\ event = "Delete" /\ exc = ""
    /\ default_last_image # Placeholder("main")
    /\ default_last_image \notin files
    /\ Len(ops) = 1 /\ ops[1].op = "print"

---------------------------------------------------------------------------
(* Properties of the event loop                                            *)

\* the recordings the last action started
Recordings == SelectSeq(ops, LAMBDA o : o.op = "start_recording")

\* the capture series the last action started: each sets the colour effects once
Series == SelectSeq(ops, LAMBDA o : o.op = "set" /\ o.a = "color_effects")

\* C11: at most one capture or recording is in flight at any time: one
\* iteration of the loop starts at most one of them, and whenever the loop
\* is about to read the next event no recording is running and the status
\* is Idle
C11_OneAtATime ==
    /\ Len(Recordings) + Len(Series) <= 1
    /\ pc \in {"loop", "image_window"} => (~camera.recording /\ window.status = "Idle")

\* a Record has run to its end and the loop goes on
C11_Witness ==
    /\ event = "Record" /\ pc = "loop"
    /\ Len(Recordings) = 1 /\ Len(Series) = 0
    /\ ~camera.recording

\* the status updates and the recording calls of the last action, in order
RecordSteps ==
    SelectSeq(ops, LAMBDA o : o.op \in {"status", "start_recording",
                                        "wait_recording", "stop_recording"})

\* the same, each step by its name, a status update by its text
RecordTrace ==
    [i \in 1..Len(RecordSteps) |->
        IF RecordSteps[i].op = "status" THEN RecordSteps[i].v ELSE RecordSteps[i].op]

\* the steps of a Record that runs to its end
RecordOrder ==
    <<"Working...", "Working...", "start_recording", "wait_recording",
      "stop_recording", "Idle">>

\* the waits of the last action
Waits == SelectSeq(ops, LAMBDA o : o.op = "wait_recording")

\* C12: a Record performs, in this order, status busy, one start_recording
\* into one file, one wait, one stop_recording, status Idle: whatever it
\* performs is a beginning of that order, and a Record that runs to its end
\* performs all of it, writes exactly one file, and waits the video duration
\* the controls gave when Record was pressed
C12_RecordOrder ==
    event = "Record" =>
        /\ Len(RecordTrace) <= Len(RecordOrder)
        /\ RecordTrace = SubSeq(RecordOrder, 1, Len(RecordTrace))
        /\ pc = "loop" =>
              /\ RecordTrace = RecordOrder
              /\ Len(Recordings) = 1 /\ Recordings[1].a \in files
              /\ values["video_duration_slider"].t = "int"
              /\ Waits[1].v = values["video_duration_slider"].v

\* a Record of a typed duration of 3 seconds has run to its end
C12_Witness ==
    /\ event = "Record" /\ pc = "loop"
    /\ RecordTrace = RecordOrder
    /\ Control("video_duration_slider") = 3
    /\ Waits[1].v = 3

\* C13: on every way out of the loop (Exit, the window closed, an error
\* raised inside the loop) the camera is released: no state in which the
\* program has ended has the camera open, previewing or recording
C13_CameraReleased ==
    pc \in {"returned", "raised"} =>
        (camera.closed /\ ~camera.preview /\ ~camera.recording)

\* the device failed while a recording was running: the program has ended
\* and the camera is closed
C13_Witness ==
    /\ pc = "raised" /\ event = "Record" /\ exc = "PiCameraRuntimeError"
    /\ Len(Recordings) = 1
    /\ camera.closed

---------------------------------------------------------------------------
(* Properties of the settings update                                       *)

\* C14: when the raw value of a numeric control is not an integer of its
\* range (the text is empty, not a number, or out of range, so that the
\* control gives back the text), the settings update raises nothing and the
\* loop goes on
C14_InvalidInputNeverRaises ==
    (event = TIMEOUT_KEY /\ \E k \in SpinKeys : values[k].t = "str")
        => (pc = "loop" /\ exc = "")

---------------------------------------------------------------------------
(* Properties of the capture branches                                      *)

\* the frames the last action converted to DNG, in order
Converted == SelectSeq(ops, LAMBDA o : o.op = "convert")

\* C15: the frames of a Capture are converted to DNG exactly when the
\* 'Convert to DNG' control is checked as the Capture is triggered: every
\* frame when it is checked, none when it is not
C15_DngFollowsCheckbox ==
    CaptureDone =>
        Len(Converted) = (IF values["convertdng"] THEN Len(Captured) ELSE 0)

\* the shutter speeds the last action set: one for each long exposure frame
ShutterSets == SelectSeq(ops, LAMBDA o : o.op = "set" /\ o.a = "shutter_speed")

\* the frame rates the last action set
FramerateSets == SelectSeq(ops, LAMBDA o : o.op = "set" /\ o.a = "framerate")

\* C19: a Capture takes the long exposure branch exactly when the exposure
\* setting is greater than 1: then every frame is taken with the shutter
\* speed set, and with an exposure of 0 or 1 no frame is and the frame rate
\* is not touched
C19_LongExposureIffAboveOne ==
    CaptureDone =>
        IF Control("exposure_slider") > 1
        THEN Len(ShutterSets) = Len(Captured) /\ Len(FramerateSets) = Len(Captured) + 1
        ELSE Len(ShutterSets) = 0 /\ Len(FramerateSets) = 0

\* a Capture with an exposure of 2 has taken a long exposure frame
C19_Witness ==
    /\ CaptureDone /\ Control("exposure_slider") = 2
    /\ Len(Captured) >= 1 /\ Len(ShutterSets) = Len(Captured)
    /\ ShutterSets[1].v = 2000000

\* C20: after a long exposure Capture has run its loop, whatever the image
\* count and the exposure above 1, the frame rate of the device is 30 and
\* its exposure mode is auto
C20_RestoredAfterLongExposure ==
    (CaptureDone /\ Control("exposure_slider") > 1)
        => (camera.framerate = <<30, 1>> /\ camera.exposure_mode = "auto")

\* a long exposure Capture of two frames has ended and the device is restored
C20_Witness ==
    /\ CaptureDone /\ Control("exposure_slider") > 1
    /\ Len(Captured) = 2
    /\ \E i \in 1..Len(ops) : ops[i].op = "set" /\ ops[i].a = "exposure_mode" /\ ops[i].v = "off"
    /\ camera.framerate = <<30, 1>> /\ camera.exposure_mode = "auto"

---------------------------------------------------------------------------
(* Properties of the plate solver                                          *)

\* the popups the last action showed
Popups == SelectSeq(ops, LAMBDA o : o.op = "popup")

\* C16: 'Where am I?' never ends the session: whether the solver finds a
\* match, finds none or fails, and whether or not the file of the last image
\* can be opened, a popup is shown and the loop goes on
C16_WhereAmIContinues ==
    event = "Where am I?" => (pc = "loop" /\ exc = "" /\ Len(Popups) = 1)

---------------------------------------------------------------------------
(* Properties of the reset button                                          *)

\* C17: pressing the reset button ('Defaults' in main(), 'Set to Default'
\* in run()) runs the reset in that iteration: afterwards the eight numeric
\* controls show their defaults and the settings PiCamManager stores are
\* the defaults
C17_ResetButtonResets ==
    (pc = "loop" /\ event = (IF rev = "run" THEN "Set to Default" ELSE "Defaults"))
        => /\ \A k \in SpinKeys : window[k] = InitWindow[k]
           /\ rev = "run" =>
                 /\ picam_manager.brightness = default_settings.brightness
                 /\ picam_manager.contrast = default_settings.contrast
                 /\ picam_manager.saturation = default_settings.saturation
                 /\ picam_manager.sharpness = default_settings.sharpness
                 /\ picam_manager.exposure = default_settings.exposure
                 /\ picam_manager.time_step = default_settings.time_step
                 /\ picam_manager.vid_time = PyI(default_settings.vid_time)

---------------------------------------------------------------------------
(* Properties of PiCamManager without a camera                             *)

\* the writes to the camera of the last action
CameraWrites == SelectSeq(ops, LAMBDA o : o.op = "set")

\* C18: while no camera is attached, update_camera_settings with numeric
\* values and reset_to_default store the settings, write nothing to any
\* device and raise nothing
C18_DetachedCallsAreSafe ==
    /\ (/\ pc = "construct" /\ event = "update_camera_settings"
        /\ \A k \in SpinKeys \ {"video_duration_slider"} : ~IntRaises(values[k]))
       => /\ exc = ""
          /\ Len(CameraWrites) = 0 /\ camera = NoCamera
          /\ picam_manager.brightness = Control("brightness_slider")
          /\ picam_manager.contrast = Control("contrast_slider")
          /\ picam_manager.saturation = Control("saturation_slider")
          /\ picam_manager.sharpness = Control("sharpness_slider")
          /\ picam_manager.exposure = Control("exposure_slider")
          /\ picam_manager.exposure_img_count = PyI(Control("no_images_slider"))
          /\ picam_manager.time_step = Control("time_step_slider")
          /\ picam_manager.vid_time = values["video_duration_slider"]
    /\ (pc = "construct" /\ event = "reset_to_default")
       => /\ exc = ""
          /\ Len(CameraWrites) = 0 /\ camera = NoCamera
          /\ picam_manager.brightness = default_settings.brightness
          /\ picam_manager.contrast = default_settings.contrast
          /\ picam_manager.saturation = default_settings.saturation
          /\ picam_manager.sharpness = default_settings.sharpness
          /\ picam_manager.exposure = default_settings.exposure
          /\ picam_manager.time_step = default_settings.time_step
          /\ picam_manager.vid_time = PyI(default_settings.vid_time)

\* a brightness of 150, which a camera would refuse, was stored by
\* update_camera_settings while no camera was attached
C18_Witness ==
    /\ pc = "construct" /\ event = "update_camera_settings" /\ exc = ""
    /\ ~picam_manager.camera_attached
    /\ picam_manager.brightness = 150
    /\ Len(CameraWrites) = 0

---------------------------------------------------------------------------
(* Properties of the long exposure loop                                    *)

\* the 30 second pauses of the last action
Pauses == SelectSeq(ops, LAMBDA o : o.op = "sleep" /\ o.v = 30)

\* C21: in a long exposure Capture of n frames the pause that lets gain and
\* white balance settle is taken once for the series, before its first
\* frame, and not before every frame
C21_SettlePauseOncePerSeries ==
    (CaptureDone /\ Control("exposure_slider") > 1 /\ Len(Captured) >= 1)
        => Len(Pauses) = 1

\* the positions in ops of the writes of the camera attribute attr before
\* position i
SetsBefore(attr, i) == {j \in 1..(i - 1) : ops[j].op = "set" /\ ops[j].a = attr}

\* attr was written before position i, and the last such write gave it val
SetTo(attr, i, val) ==
    /\ SetsBefore(attr, i) # {}
    /\ ops[CHOOSE j \in SetsBefore(attr, i) : \A k \in SetsBefore(attr, i) : k <= j].v = val

\* C22: at the moment each long exposure frame is captured the shutter
\* speed of the device is the exposure setting times 1,000,000 microseconds,
\* the ISO is 800 and the exposure mode is off, for every exposure above 1
C22_DeviceStateAtCapture ==
    (event = "Capture" /\ Control("exposure_slider") > 1) =>
        \A i \in 1..Len(ops) :
            ops[i].op = "capture" =>
                /\ SetTo("shutter_speed", i, Control("exposure_slider") * 1000000)
                /\ SetTo("iso", i, 800)
                /\ SetTo("exposure_mode", i, "off")

\* two frames were captured with an exposure of 199 seconds
C22_Witness ==
    /\ CaptureDone /\ Control("exposure_slider") = 199
    /\ Len(Captured) = 2
    /\ camera.shutter_speed = 199000000 /\ camera.iso = 800

\* C29: a long exposure Capture restores the frame rate and the exposure
\* mode only: when it has run to its end the shutter speed and the ISO of
\* the device are still those of the long exposure, and no other step
\* writes them, so that a later Capture of the normal branch runs with that
\* shutter speed and ISO 800
C29_ShutterAndIsoKept ==
    [][/\ (/\ event' = "Capture" /\ pc' = "loop"
           /\ PyInt(values'["exposure_slider"]) > 1
           /\ \E i \in 1..Len(ops') : ops'[i].op = "capture")
          => /\ camera'.shutter_speed = PyInt(values'["exposure_slider"]) * 1000000
             /\ camera'.iso = 800
       /\ ~(event' = "Capture" /\ PyInt(values'["exposure_slider"]) > 1)
          => /\ camera'.shutter_speed = camera.shutter_speed
             /\ camera'.iso = camera.iso]_vars

\* a Capture of the normal branch has run after a long exposure of 2
\* seconds, with the shutter speed and the ISO the long exposure left
C29_Witness ==
    /\ CaptureDone /\ Control("exposure_slider") = 1
    /\ Len(Captured) >= 1 /\ Len(ShutterSets) = 0
    /\ camera.shutter_speed = 2000000 /\ camera.iso = 800
    /\ camera.exposure_mode = "auto"

---------------------------------------------------------------------------
(* Properties of the file names                                            *)

\* the places in a file name where '_LE_' begins
LEMarks(name) ==
    {p \in 1..(Len(name) - 3) : SubSeq(name, p, p + 3) = <<"_", "L", "E", "_">>}

\* the number between the mark at p and the 's' that follows it
LESeconds(name, p) ==
    DigitsVal(SubSeq(name, p + 4,
        (CHOOSE e \in (p + 5)..Len(name) :
            /\ name[e] = "s"
            /\ \A k \in (p + 4)..(e - 1) : IsDigit(name[k])) - 1))

\* C23: the name of a captured file carries the long exposure mark
\* '_LE_{exposure}s' exactly when the frame was taken in the long exposure
\* branch (the branch that sets the shutter speed), and the number in the
\* mark is the exposure, in seconds, the frame was taken with
C23_LongExposureMark ==
    event = "Capture" =>
        \A i \in 1..Len(Captured) :
            IF Len(ShutterSets) > 0
            THEN /\ Cardinality(LEMarks(Captured[i].a)) = 1
                 /\ \A p \in LEMarks(Captured[i].a) :
                       LESeconds(Captured[i].a, p) * 1000000 = ShutterSets[i].v
            ELSE LEMarks(Captured[i].a) = {}

\* a frame taken with an exposure of 199 seconds is named ..._LE_199s.jpeg
C23_Witness ==
    /\ CaptureDone /\ Len(Captured) >= 1
    /\ Len(ShutterSets) >= 1
    /\ ShutterSets[1].v = 199000000
    /\ \E p \in LEMarks(Captured[1].a) : LESeconds(Captured[1].a, p) = 199

\* C26: two Captures never produce the same file name: no Capture writes a
\* frame to a file that was there before it, whatever the settings and
\* however close in time the two are
C26_NoCaptureOverwrites ==
    [][event' = "Capture" =>
          \A i \in 1..Len(ops') : ops'[i].op = "capture" => ops'[i].a \notin files]_vars

---------------------------------------------------------------------------
(* Properties of the exit                                                  *)

\* the steps of the last action by name
OpNames == [i \in 1..Len(ops) |-> ops[i].op]

\* C24: on Exit and on the main window being closed the loop, in that
\* iteration, stops the preview, closes the camera, closes the window and
\* returns, raises nothing and starts no capture and no recording
C24_ExitIsClean ==
    event \in {"Exit", WIN_CLOSED} =>
        /\ pc = "returned" /\ exc = ""
        /\ SelectSeq(OpNames, LAMBDA n : n \in {"stop_preview", "close", "window_close"})
              = <<"stop_preview", "close", "window_close">>
        /\ Len(Recordings) + Len(Series) = 0

---------------------------------------------------------------------------
(* Properties of the preview size                                          *)

\* the index of the last resolution of the list, counted from 0
LastIndex == Len(resolution_list) - 1

\* C25: the index of the preview resolution stays within the resolution
\* list and persists from one event to the next: '+ Resize +' raises it by
\* one up to the last index, '- Resize -' lowers it by one down to 0, and
\* the preview is restarted with the resolution at the new index
C25_ResizeIndexPersists ==
    [][(pc = "loop" /\ pc' = "loop" /\ event' \in {"+ Resize +", "- Resize -"})
       => /\ res_counter' \in 0..LastIndex
          /\ res_counter' = (IF event' = "+ Resize +"
                              THEN (IF res_counter < LastIndex THEN res_counter + 1
                                    ELSE LastIndex)
                              ELSE (IF res_counter > 0 THEN res_counter - 1 ELSE 0))
          /\ \E i \in 1..Len(ops') :
                /\ ops'[i].op = "start_preview"
                /\ ops'[i].v = resolution_list[res_counter' + 1]]_vars

---------------------------------------------------------------------------
(* Properties of the last image                                            *)

\* C27: the last image is always the placeholder or the name of a file that
\* a capture wrote and that Delete has not removed: it starts as the
\* placeholder, whenever it changes it becomes the placeholder or the name of
\* a frame captured in that step, and a Delete that removes its file does not
\* leave it in place
C27_LastImageIsPlaceholderOrCaptured ==
    [][/\ LastImage' # LastImage =>
             \/ LastImage' = Placeholder(rev)
             \/ \E i \in 1..Len(ops') : ops'[i].op = "capture" /\ ops'[i].a = LastImage'
       /\ (event' = "Delete" /\ files' # files) => LastImage' \in files']_vars

\* C30: a Delete while the last image is the placeholder does nothing: the
\* file of the placeholder is not removed, the last image stays the
\* placeholder, nothing is raised and the window stays open, however often
\* Delete is pressed
C30_DeleteOfPlaceholder ==
    [][(pc = "image_window" /\ event' = "Delete"
        /\ default_last_image = Placeholder("main"))
       => (/\ pc' = "image_window" /\ exc' = ""
           /\ Placeholder("main") \in files'
           /\ UNCHANGED <<default_last_image, files, main_locals, camera, window>>)]_vars

\* Delete was pressed in the Last Image window that shows the placeholder
C30_Witness ==
    /\ pc = "image_window" /\ event = "Delete" /\ exc = ""
    /\ ops = <<>>
    /\ default_last_image = Placeholder("main")
    /\ Placeholder("main") \in files

---------------------------------------------------------------------------
(* Properties of the save folder                                           *)

\* C28: when the Save Location dialog is cancelled the image save folder
\* keeps its value: after Save Location the folder is the one it was or a
\* folder the operator picked, and the video save folder is the one it was
C28_CancelKeepsSaveDirectory ==
    [][event' = "Save Location" =>
          /\ img_save_directory' = img_save_directory \/ Creatable(img_save_directory')
          /\ vid_save_directory' = vid_save_directory]_vars

====
